---- MODULE Spec2Model ----
(***************************************************************************)
(* Model of the swap-based simulated-annealing move evaluator of           *)
(* src/op.rs: try_swap_optimized, create_swap_snapshot,                    *)
(* restore_swap_snapshot, update_swap_diff_fast, update_buckets_for_char.  *)
(*                                                                         *)
(* Floating point aggregates (f64) are modelled over exact integers.       *)
(* usize / u64 / i64 values are modelled as unbounded integers: the model  *)
(* keeps them far from 2^63, and NoUnsignedUnderflow below records that    *)
(* no unsigned value of the model ever drops below zero.  The u16 bucket   *)
(* counters keep their width (wrapping_add / wrapping_sub).                *)
(***************************************************************************)
EXTENDS Integers, Sequences, FiniteSets, TLC

(* ------------------------------ bounds -------------------------------- *)
\* number of roles (dynamic groups) of the problem context
NRoles == 2
\* number of items (chars) of the problem context
NItems == 3
\* bound on the total occupancy the buckets may hold above NItems
MaxDrift == 3

(* ------------------------- program constants -------------------------- *)
\* capacity of an item's key list
MAX_PARTS == 2
\* number of key indices (length of key_weighted_usage)
EQUIV_TABLE_SIZE == 3

Roles == 1..NRoles
Items == 1..NItems
Keys == 0..(EQUIV_TABLE_SIZE - 1)
CodeBase == EQUIV_TABLE_SIZE + 1
Codes == 0..(CodeBase * CodeBase - 1)

(* --------------------------- problem context -------------------------- *)
\* a part of an item is a role (dyn) or a fixed key
DynPart(r) == [dyn |-> TRUE, idx |-> r]
FixPart(k) == [dyn |-> FALSE, idx |-> k]

\* the part lists an item of the model may have; the last one names role 2
\* beyond the capacity of the key list: the item is listed as affected by
\* role 2 and its code and keys never change
PartChoice ==
  << <<DynPart(1)>>,
     <<DynPart(1), DynPart(2)>>,
     <<FixPart(0)>>,
     <<FixPart(0), FixPart(0), DynPart(2)>> >>

\* the layouts of the model: item i gets PartChoice[l[i]], l nondecreasing
Layouts ==
  { l \in [Items -> DOMAIN PartChoice] :
      \A i \in Items, j \in Items : i <= j => l[i] <= l[j] }

RECURSIVE Pow2(_)
Pow2(n) == IF n = 0 THEN 1 ELSE 2 * Pow2(n - 1)

\* char_infos[i].frequency
Frequency(i) == 5 * Pow2(i - 1)

\* the keys role r may hold
AllowedKeys(r) == IF r = 1 THEN Keys ELSE Keys \ {r % EQUIV_TABLE_SIZE}

RECURSIVE SortedSeq(_)
SortedSeq(S) ==
  IF S = {} THEN <<>>
  ELSE LET m == CHOOSE x \in S : \A y \in S : x <= y
       IN <<m>> \o SortedSeq(S \ {m})

\* the items whose parts name role r, in ascending order
AffectedBy(parts, r) ==
  SortedSeq({ i \in Items :
                \E j \in 1..Len(parts[i]) : parts[i][j] = DynPart(r) })

MakeContext(l) ==
  LET parts == [i \in Items |-> PartChoice[l[i]]]
  IN [ dynamic_groups |-> [r \in Roles |-> AllowedKeys(r)],
       group_to_char_indices |-> [r \in Roles |-> AffectedBy(parts, r)],
       char_infos |-> [i \in Items |->
                         [frequency |-> Frequency(i), parts |-> parts[i]]] ]

\* ctx.calc_code_and_keys(char_idx, assignment) -> (code, keys, num_keys)
calc_code_and_keys(c, char_idx, asg) ==
  LET parts == c.char_infos[char_idx].parts
      n == IF Len(parts) <= MAX_PARTS THEN Len(parts) ELSE MAX_PARTS
      keys == [j \in 1..MAX_PARTS |->
                 IF j <= n
                 THEN IF parts[j].dyn THEN asg[parts[j].idx] ELSE parts[j].idx
                 ELSE 0]
      code == IF n = 1 THEN keys[1] + 1
              ELSE (keys[1] + 1) + CodeBase * (keys[2] + 1)
  IN <<code, keys, n>>

\* the equivalence value of one key
EquivOfKey(k) == k + 1

\* ctx.calc_key_avg_equiv_inline(keys, num_keys)
calc_key_avg_equiv_inline(keys, num_keys) ==
  IF num_keys = 1 THEN EquivOfKey(keys[1])
  ELSE (EquivOfKey(keys[1]) + EquivOfKey(keys[2])) \div 2

(* ------------------------------- state -------------------------------- *)
VARIABLES
  ctx,                      \* the read-only problem context
  assignment,               \* role -> key
  current_codes,            \* item -> code
  current_keys,             \* item -> <<keys, num_keys>>
  current_equiv_contrib,    \* item -> contribution
  current_equiv_sq_contrib, \* item -> squared contribution
  buckets,                  \* code -> occupancy (u16)
  bucket_freqs,             \* code -> frequency sum (u64)
  total_collisions,
  collision_frequency,
  total_equiv_weighted,
  total_equiv_sq_weighted,
  key_weighted_usage,       \* key -> weighted usage
  call,                     \* the last call: its arguments, path and result
  pre,                      \* assignment and optimizer state before it
  round_trip                \* after two accepted calls in a row on the same
                            \* two roles: the state before the first of them

vars == << ctx, assignment, current_codes, current_keys, current_equiv_contrib,
           current_equiv_sq_contrib, buckets, bucket_freqs, total_collisions,
           collision_frequency, total_equiv_weighted, total_equiv_sq_weighted,
           key_weighted_usage, call, pre, round_trip >>

\* the optimizer state (the struct behind &mut self) as one record
Self ==
  [ current_codes |-> current_codes,
    current_keys |-> current_keys,
    current_equiv_contrib |-> current_equiv_contrib,
    current_equiv_sq_contrib |-> current_equiv_sq_contrib,
    buckets |-> buckets,
    bucket_freqs |-> bucket_freqs,
    total_collisions |-> total_collisions,
    collision_frequency |-> collision_frequency,
    total_equiv_weighted |-> total_equiv_weighted,
    total_equiv_sq_weighted |-> total_equiv_sq_weighted,
    key_weighted_usage |-> key_weighted_usage ]

(* --------------------------- sums and counts -------------------------- *)
RECURSIVE SumOver(_, _)
\* the sum of f[x] over the finite set S
SumOver(S, f) ==
  IF S = {} THEN 0
  ELSE LET x == CHOOSE y \in S : TRUE IN f[x] + SumOver(S \ {x}, f)

\* F applied to the value of v, with v evaluated once
Bind(v, F(_)) == CHOOSE y \in { F(x) : x \in {v} } : TRUE

\* number of occurrences of key k in a key list
Occurrences(kl, k) == Cardinality({ j \in 1..kl[2] : kl[1][j] = k })

(* the state a from-scratch computation yields for a context and an        *)
(* assignment (the invariants 1-5 of the data model)                       *)
Recomputed(c, asg) ==
  LET ck(i) == calc_code_and_keys(c, i, asg)
      codes == [i \in Items |-> ck(i)[1]]
      keys == [i \in Items |-> <<ck(i)[2], ck(i)[3]>>]
      freq == [i \in Items |-> c.char_infos[i].frequency]
      avg == [i \in Items |-> calc_key_avg_equiv_inline(ck(i)[2], ck(i)[3])]
      contrib == [i \in Items |-> avg[i] * freq[i]]
      sq == [i \in Items |-> avg[i] * avg[i] * freq[i]]
      In(code) == { i \in Items : codes[i] = code }
      occ == [code \in Codes |-> Cardinality(In(code))]
      Colliding == { i \in Items : occ[codes[i]] > 1 }
  IN [ current_codes |-> codes,
       current_keys |-> keys,
       current_equiv_contrib |-> contrib,
       current_equiv_sq_contrib |-> sq,
       buckets |-> occ,
       bucket_freqs |-> [code \in Codes |-> SumOver(In(code), freq)],
       total_collisions |-> Cardinality({ code \in Codes : occ[code] > 1 }),
       collision_frequency |-> SumOver(Colliding, freq),
       total_equiv_weighted |-> SumOver(Items, contrib),
       total_equiv_sq_weighted |-> SumOver(Items, sq),
       key_weighted_usage |->
         [k \in Keys |->
            SumOver(Items, [i \in Items |-> Occurrences(keys[i], k) * freq[i]])] ]

(* ------------------------- Bucket Delta Engine ------------------------ *)
\* u16::wrapping_sub and u16::wrapping_add
wrapping_sub(x, y) == (x - y) % 65536
wrapping_add(x, y) == (x + y) % 65536

\* a delta engine that, entering a bucket of one item, does not add the
\* frequency of that item to freq_delta
update_buckets_without_occupant(self, old_code, new_code, freq) ==
  LET old_count == self.buckets[old_code]
      cd1 == IF old_count > 1 THEN -1 ELSE 0
      fd1 == IF old_count > 1
             THEN (0 - freq)
                  - (IF old_count = 2
                     THEN self.bucket_freqs[old_code] - freq ELSE 0)
             ELSE 0
      b1 == [self.buckets EXCEPT ![old_code] = wrapping_sub(old_count, 1)]
      f1 == [self.bucket_freqs EXCEPT ![old_code] = @ - freq]
      new_count == b1[new_code]
  IN [ self |-> [self EXCEPT
                   !.buckets = [b1 EXCEPT ![new_code] = wrapping_add(new_count, 1)],
                   !.bucket_freqs = [f1 EXCEPT ![new_code] = @ + freq]],
       collision_delta |-> IF new_count >= 1 THEN cd1 + 1 ELSE cd1,
       freq_delta |-> IF new_count >= 1 THEN fd1 + freq ELSE fd1 ]

\* a delta engine that, leaving a bucket of two items, does not take the
\* frequency of the remaining item out of freq_delta
update_buckets_without_remaining(self, old_code, new_code, freq) ==
  LET old_count == self.buckets[old_code]
      cd1 == IF old_count > 1 THEN -1 ELSE 0
      fd1 == IF old_count > 1 THEN 0 - freq ELSE 0
      b1 == [self.buckets EXCEPT ![old_code] = wrapping_sub(old_count, 1)]
      f1 == [self.bucket_freqs EXCEPT ![old_code] = @ - freq]
      new_count == b1[new_code]
  IN [ self |-> [self EXCEPT
                   !.buckets = [b1 EXCEPT ![new_code] = wrapping_add(new_count, 1)],
                   !.bucket_freqs = [f1 EXCEPT ![new_code] = @ + freq]],
       collision_delta |-> IF new_count >= 1 THEN cd1 + 1 ELSE cd1,
       freq_delta |->
         IF new_count >= 1
         THEN fd1 + freq + (IF new_count = 1 THEN f1[new_code] ELSE 0)
         ELSE fd1 ]

\* update_buckets_for_char(&mut self, old_code, new_code, freq)
\*   -> self after the call, and (collision_delta, freq_delta)
update_buckets_for_char(self, old_code, new_code, freq) ==
  LET old_count == self.buckets[old_code]
      cd1 == IF old_count > 1 THEN -1 ELSE 0
      fd1 == IF old_count > 1
             THEN (0 - freq)
                  - (IF old_count = 2
                     THEN self.bucket_freqs[old_code] - freq ELSE 0)
             ELSE 0
      b1 == [self.buckets EXCEPT ![old_code] = wrapping_sub(old_count, 1)]
      f1 == [self.bucket_freqs EXCEPT ![old_code] = @ - freq]
      new_count == b1[new_code]
      cd2 == IF new_count >= 1 THEN cd1 + 1 ELSE cd1
      fd2 == IF new_count >= 1
             THEN fd1 + freq + (IF new_count = 1 THEN f1[new_code] ELSE 0)
             ELSE fd1
      b2 == [b1 EXCEPT ![new_code] = wrapping_add(new_count, 1)]
      f2 == [f1 EXCEPT ![new_code] = @ + freq]
  IN [ self |-> [self EXCEPT !.buckets = b2, !.bucket_freqs = f2],
       collision_delta |-> cd2,
       freq_delta |-> fd2 ]

(* ----------------------- Incremental Diff Updater --------------------- *)
\* the loops "for j in 0..old_n { local_key_usage[old_keys[j]] -= freq_f }"
\* and "for j in 0..new_n { local_key_usage[new_keys[j]] += freq_f }"
\* a removal loop that stops after the first key of the old list
UsageMinusFirstKeyOnly(usage, keys, n, freq) ==
  [k \in Keys |-> usage[k] - (IF keys[1] = k THEN freq ELSE 0)]
UsageMinus(usage, keys, n, freq) ==
  [k \in Keys |-> usage[k] - Occurrences(<<keys, n>>, k) * freq]
UsagePlus(usage, keys, n, freq) ==
  [k \in Keys |-> usage[k] + Occurrences(<<keys, n>>, k) * freq]

\* an accumulation that does not take the old contribution out
EquivSumKeepingOld(local, new_contrib, old_contrib) == local + new_contrib
\* "local_equiv_weighted += new_contrib - old_contrib" (and the squared one)
EquivSumAfter(local, new_contrib, old_contrib) ==
  local + (new_contrib - old_contrib)

\* the locals of update_swap_diff_fast, read from self
DiffLocals(self) ==
  [ self |-> self,
    local_collisions |-> self.total_collisions,
    local_collision_freq |-> self.collision_frequency,
    local_equiv_weighted |-> self.total_equiv_weighted,
    local_equiv_sq_weighted |-> self.total_equiv_sq_weighted,
    local_key_usage |-> self.key_weighted_usage ]

\* an iteration that updates the cached code of the item and keeps its
\* cached key list
DiffStepKeepingKeys(d, c, asg, char_idx) ==
  LET self == d.self
      old_code == self.current_codes[char_idx]
      old_keys == self.current_keys[char_idx][1]
      old_num_keys == self.current_keys[char_idx][2]
      ck == calc_code_and_keys(c, char_idx, asg)
      new_code == ck[1]
      new_keys == ck[2]
      new_num_keys == ck[3]
      freq == c.char_infos[char_idx].frequency
      ub == update_buckets_for_char(self, old_code, new_code, freq)
      old_contrib == self.current_equiv_contrib[char_idx]
      old_sq_contrib == self.current_equiv_sq_contrib[char_idx]
      new_key_avg_equiv == calc_key_avg_equiv_inline(new_keys, new_num_keys)
      new_contrib == new_key_avg_equiv * freq
      new_sq_contrib == new_key_avg_equiv * new_key_avg_equiv * freq
  IN IF old_code = new_code THEN d
     ELSE [ self |->
              [ub.self EXCEPT
                 !.current_equiv_contrib[char_idx] = new_contrib,
                 !.current_equiv_sq_contrib[char_idx] = new_sq_contrib,
                 !.current_codes[char_idx] = new_code],
            local_collisions |-> d.local_collisions + ub.collision_delta,
            local_collision_freq |-> d.local_collision_freq + ub.freq_delta,
            local_equiv_weighted |->
              EquivSumAfter(d.local_equiv_weighted, new_contrib, old_contrib),
            local_equiv_sq_weighted |->
              EquivSumAfter(d.local_equiv_sq_weighted, new_sq_contrib,
                            old_sq_contrib),
            local_key_usage |->
              UsagePlus(UsageMinus(d.local_key_usage, old_keys, old_num_keys,
                                   freq),
                        new_keys, new_num_keys, freq) ]

\* one iteration of the loop over affected_chars
DiffStep(d, c, asg, char_idx) ==
  LET self == d.self
      old_code == self.current_codes[char_idx]
      old_keys == self.current_keys[char_idx][1]
      old_num_keys == self.current_keys[char_idx][2]
      ck == calc_code_and_keys(c, char_idx, asg)
      new_code == ck[1]
      new_keys == ck[2]
      new_num_keys == ck[3]
      freq == c.char_infos[char_idx].frequency
      ub == update_buckets_for_char(self, old_code, new_code, freq)
      old_contrib == self.current_equiv_contrib[char_idx]
      old_sq_contrib == self.current_equiv_sq_contrib[char_idx]
      new_key_avg_equiv == calc_key_avg_equiv_inline(new_keys, new_num_keys)
      new_contrib == new_key_avg_equiv * freq
      new_sq_contrib == new_key_avg_equiv * new_key_avg_equiv * freq
  IN IF old_code = new_code THEN d
     ELSE [ self |->
              [ub.self EXCEPT
                 !.current_equiv_contrib[char_idx] = new_contrib,
                 !.current_equiv_sq_contrib[char_idx] = new_sq_contrib,
                 !.current_codes[char_idx] = new_code,
                 !.current_keys[char_idx] = <<new_keys, new_num_keys>>],
            local_collisions |-> d.local_collisions + ub.collision_delta,
            local_collision_freq |-> d.local_collision_freq + ub.freq_delta,
            local_equiv_weighted |->
              EquivSumAfter(d.local_equiv_weighted, new_contrib, old_contrib),
            local_equiv_sq_weighted |->
              EquivSumAfter(d.local_equiv_sq_weighted, new_sq_contrib,
                            old_sq_contrib),
            local_key_usage |->
              UsagePlus(UsageMinus(d.local_key_usage, old_keys, old_num_keys,
                                   freq),
                        new_keys, new_num_keys, freq) ]

RECURSIVE DiffLoop(_, _, _, _, _)
\* the loop "for &char_idx in affected_chars", from position n on
DiffLoop(d, c, asg, affected_chars, n) ==
  IF n > Len(affected_chars) THEN d
  ELSE Bind(DiffStep(d, c, asg, affected_chars[n]),
            LAMBDA next : DiffLoop(next, c, asg, affected_chars, n + 1))

\* update_swap_diff_fast(&mut self, ctx, assignment, affected_chars)
update_swap_diff_fast(self, c, asg, affected_chars) ==
  Bind(DiffLoop(DiffLocals(self), c, asg, affected_chars, 1),
       LAMBDA d :
         [d.self EXCEPT
            !.total_collisions = d.local_collisions,
            !.collision_frequency = d.local_collision_freq,
            !.total_equiv_weighted = d.local_equiv_weighted,
            !.total_equiv_sq_weighted = d.local_equiv_sq_weighted,
            !.key_weighted_usage = d.local_key_usage])

(* --------------------------- Snapshot Manager ------------------------- *)
\* create_swap_snapshot(&self, affected_chars) -> SwapSnapshot
create_swap_snapshot(self, affected_chars) ==
  LET n == Len(affected_chars)
      code(j) == self.current_codes[affected_chars[j]]
  IN [ codes |-> [j \in 1..n |-> <<affected_chars[j], code(j)>>],
       keys |-> [j \in 1..n |->
                   <<affected_chars[j], self.current_keys[affected_chars[j]]>>],
       equiv_contribs |->
         [j \in 1..n |->
            <<affected_chars[j], self.current_equiv_contrib[affected_chars[j]]>>],
       equiv_sq_contribs |->
         [j \in 1..n |->
            <<affected_chars[j],
              self.current_equiv_sq_contrib[affected_chars[j]]>>],
       buckets |-> [j \in 1..n |-> <<code(j), self.buckets[code(j)]>>],
       bucket_freqs |-> [j \in 1..n |-> <<code(j), self.bucket_freqs[code(j)]>>],
       collision_count |-> self.total_collisions,
       collision_frequency |-> self.collision_frequency,
       total_equiv_weighted |-> self.total_equiv_weighted,
       total_equiv_sq_weighted |-> self.total_equiv_sq_weighted,
       key_weighted_usage |-> self.key_weighted_usage ]

RECURSIVE WriteBack(_, _, _)
\* "for (idx, v) in entries { f[idx] = v }", from position n on
WriteBack(f, entries, n) ==
  IF n > Len(entries) THEN f
  ELSE WriteBack([f EXCEPT ![entries[n][1]] = entries[n][2]], entries, n + 1)

\* a restore that writes back the occupancies and keeps the frequency sums
\* of the trial move
restore_without_bucket_freqs(self, snapshot) ==
  [ total_collisions |-> snapshot.collision_count,
    collision_frequency |-> snapshot.collision_frequency,
    total_equiv_weighted |-> snapshot.total_equiv_weighted,
    total_equiv_sq_weighted |-> snapshot.total_equiv_sq_weighted,
    key_weighted_usage |-> snapshot.key_weighted_usage,
    current_codes |-> WriteBack(self.current_codes, snapshot.codes, 1),
    current_keys |-> WriteBack(self.current_keys, snapshot.keys, 1),
    current_equiv_contrib |->
      WriteBack(self.current_equiv_contrib, snapshot.equiv_contribs, 1),
    current_equiv_sq_contrib |->
      WriteBack(self.current_equiv_sq_contrib, snapshot.equiv_sq_contribs, 1),
    buckets |-> WriteBack(self.buckets, snapshot.buckets, 1),
    bucket_freqs |-> self.bucket_freqs ]

\* restore_swap_snapshot(&mut self, snapshot)
restore_swap_snapshot(self, snapshot) ==
  [ total_collisions |-> snapshot.collision_count,
    collision_frequency |-> snapshot.collision_frequency,
    total_equiv_weighted |-> snapshot.total_equiv_weighted,
    total_equiv_sq_weighted |-> snapshot.total_equiv_sq_weighted,
    key_weighted_usage |-> snapshot.key_weighted_usage,
    current_codes |-> WriteBack(self.current_codes, snapshot.codes, 1),
    current_keys |-> WriteBack(self.current_keys, snapshot.keys, 1),
    current_equiv_contrib |->
      WriteBack(self.current_equiv_contrib, snapshot.equiv_contribs, 1),
    current_equiv_sq_contrib |->
      WriteBack(self.current_equiv_sq_contrib, snapshot.equiv_sq_contribs, 1),
    buckets |-> WriteBack(self.buckets, snapshot.buckets, 1),
    bucket_freqs |-> WriteBack(self.bucket_freqs, snapshot.bucket_freqs, 1) ]

(* ----------------------------- Move Evaluator ------------------------- *)
\* self.get_score(ctx): the objective, a function of the aggregates
get_score(self) ==
  LET u == self.key_weighted_usage
      hi == CHOOSE k \in Keys : \A j \in Keys : u[j] <= u[k]
      lo == CHOOSE k \in Keys : \A j \in Keys : u[k] <= u[j]
  IN 100 * self.total_collisions + self.collision_frequency
     + self.total_equiv_sq_weighted - self.total_equiv_weighted
     + (u[hi] - u[lo])

\* a filter that does not ask whether r1 may hold k2
FastFilterWithoutFirstPermission(c, asg, r1, r2) ==
  asg[r1] = asg[r2] \/ asg[r1] \notin c.dynamic_groups[r2]
\* a filter that does not ask whether r2 may hold k1
FastFilterWithoutSecondPermission(c, asg, r1, r2) ==
  asg[r1] = asg[r2] \/ asg[r2] \notin c.dynamic_groups[r1]
\* a filter that does not compare k1 with k2
FastFilterWithoutEqualKeys(c, asg, r1, r2) ==
  \/ asg[r2] \notin c.dynamic_groups[r1]
  \/ asg[r1] \notin c.dynamic_groups[r2]
\* the fast filter of try_swap_optimized: TRUE when the call returns early
FastFilter(c, asg, r1, r2) ==
  LET k1 == asg[r1]
      k2 == asg[r2]
  IN \/ k1 = k2
     \/ k2 \notin c.dynamic_groups[r1]
     \/ k1 \notin c.dynamic_groups[r2]

RECURSIVE AppendAll(_, _, _, _)
\* a loop over affected2 that pushes every item, listed in affected1 or not
AppendAll(acc, affected1, affected2, n) ==
  IF n > Len(affected2) THEN acc
  ELSE AppendAll(Append(acc, affected2[n]), affected1, affected2, n + 1)

RECURSIVE AppendNew(_, _, _, _)
\* "for &char_idx in affected2 { if !affected1.contains(..) { push } }"
AppendNew(acc, affected1, affected2, n) ==
  IF n > Len(affected2) THEN acc
  ELSE AppendNew(
         IF \E j \in 1..Len(affected1) : affected1[j] = affected2[n]
         THEN acc ELSE Append(acc, affected2[n]),
         affected1, affected2, n + 1)

\* the affected_chars list of try_swap_optimized
AffectedChars(c, r1, r2) ==
  LET affected1 == c.group_to_char_indices[r1]
      affected2 == c.group_to_char_indices[r2]
  IN AppendNew(affected1, affected1, affected2, 1)

\* an exchange that writes only the first role
SwappedFirstOnly(asg, r1, r2) == [asg EXCEPT ![r1] = asg[r2]]
\* the assignment after "assignment[r1] = k2; assignment[r2] = k1"
Swapped(asg, r1, r2) ==
  LET k1 == asg[r1]
      k2 == asg[r2]
  IN [[asg EXCEPT ![r1] = k2] EXCEPT ![r2] = k1]

\* a test that lets only strictly improving moves through without a draw
MetropolisStrict(delta, draw_below) == delta < 0 \/ draw_below
\* the Metropolis test "delta <= 0.0 || rng.gen::<f64>() < (-delta/temp).exp()";
\* draw_below is the outcome of the comparison of the random draw
Metropolis(delta, draw_below) == delta <= 0 \/ draw_below

\* the trial move of a call that passed the filter: the state after
\* update_swap_diff_fast, the snapshot taken before it, and delta
Trial(self, c, asg, r1, r2) ==
  Bind(AffectedChars(c, r1, r2),
       LAMBDA affected_chars :
         Bind(update_swap_diff_fast(self, c, Swapped(asg, r1, r2),
                                    affected_chars),
              LAMBDA moved :
                [ moved |-> moved,
                  snapshot |-> create_swap_snapshot(self, affected_chars),
                  delta |-> get_score(moved) - get_score(self) ]))

(* ------------------------------ behaviour ----------------------------- *)
\* the caller's assignment and the optimizer state become asg and s
Becomes(asg, s) ==
  /\ assignment' = asg
  /\ current_codes' = s.current_codes
  /\ current_keys' = s.current_keys
  /\ current_equiv_contrib' = s.current_equiv_contrib
  /\ current_equiv_sq_contrib' = s.current_equiv_sq_contrib
  /\ buckets' = s.buckets
  /\ bucket_freqs' = s.bucket_freqs
  /\ total_collisions' = s.total_collisions
  /\ collision_frequency' = s.collision_frequency
  /\ total_equiv_weighted' = s.total_equiv_weighted
  /\ total_equiv_sq_weighted' = s.total_equiv_sq_weighted
  /\ key_weighted_usage' = s.key_weighted_usage

\* the total occupancy the buckets of s hold stays within the model's bound
WithinDrift(s) == SumOver(Codes, s.buckets) <= NItems + MaxDrift

\* no pair of accepted calls on the same two roles has just completed
NoRoundTrip == [valid |-> FALSE, assignment |-> <<>>, self |-> <<>>]

\* the record of round_trip after an accepted call on r1 and r2
RoundTripAfterAccepted(r1, r2) ==
  IF call.path = "accepted" /\ {call.r1, call.r2} = {r1, r2}
  THEN [valid |-> TRUE, assignment |-> pre.assignment, self |-> pre.self]
  ELSE NoRoundTrip

\* the context is built once; the optimizer state is initialised from a
\* starting assignment that respects the roles' permitted keys
Init ==
  \E l \in Layouts :
  \E asg \in [Roles -> Keys] :
    /\ \A r \in Roles : asg[r] \in AllowedKeys(r)
    /\ ctx = MakeContext(l)
    /\ assignment = asg
    /\ LET s == Recomputed(MakeContext(l), asg)
       IN /\ current_codes = s.current_codes
          /\ current_keys = s.current_keys
          /\ current_equiv_contrib = s.current_equiv_contrib
          /\ current_equiv_sq_contrib = s.current_equiv_sq_contrib
          /\ buckets = s.buckets
          /\ bucket_freqs = s.bucket_freqs
          /\ total_collisions = s.total_collisions
          /\ collision_frequency = s.collision_frequency
          /\ total_equiv_weighted = s.total_equiv_weighted
          /\ total_equiv_sq_weighted = s.total_equiv_sq_weighted
          /\ key_weighted_usage = s.key_weighted_usage
          /\ pre = [assignment |-> asg, self |-> s]
    /\ call = [path |-> "none", ret |-> FALSE, r1 |-> 1, r2 |-> 1, delta |-> 0,
               draw_below |-> FALSE]
    /\ round_trip = NoRoundTrip

\* try_swap_optimized returning at the fast filter
TrySwapFiltered(r1, r2) ==
  /\ FastFilter(ctx, assignment, r1, r2)
  /\ Becomes(assignment, Self)
  /\ call' = [path |-> "filtered", ret |-> FALSE, r1 |-> r1, r2 |-> r2,
              delta |-> 0, draw_below |-> FALSE]
  /\ pre' = [assignment |-> assignment, self |-> Self]
  /\ round_trip' = NoRoundTrip
  /\ UNCHANGED ctx

\* try_swap_optimized passing the filter and accepting the move
TrySwapAccepted(r1, r2, draw_below) ==
  /\ ~FastFilter(ctx, assignment, r1, r2)
  /\ \E t \in {Trial(Self, ctx, assignment, r1, r2)} :
        /\ Metropolis(t.delta, draw_below)
        /\ WithinDrift(t.moved)
        /\ Becomes(Swapped(assignment, r1, r2), t.moved)
        /\ call' = [path |-> "accepted", ret |-> TRUE, r1 |-> r1, r2 |-> r2,
                    delta |-> t.delta, draw_below |-> draw_below]
  /\ pre' = [assignment |-> assignment, self |-> Self]
  /\ round_trip' = RoundTripAfterAccepted(r1, r2)
  /\ UNCHANGED ctx

\* try_swap_optimized passing the filter and rejecting the move:
\* "assignment[r1] = k1; assignment[r2] = k2; restore_swap_snapshot(snapshot)"
TrySwapRejected(r1, r2, draw_below) ==
  /\ ~FastFilter(ctx, assignment, r1, r2)
  /\ \E t \in {Trial(Self, ctx, assignment, r1, r2)} :
     \E restored \in {restore_swap_snapshot(t.moved, t.snapshot)} :
     LET k1 == assignment[r1]
         k2 == assignment[r2]
     IN /\ ~Metropolis(t.delta, draw_below)
        /\ WithinDrift(restored)
        /\ Becomes([[Swapped(assignment, r1, r2) EXCEPT ![r1] = k1]
                      EXCEPT ![r2] = k2],
                   restored)
        /\ call' = [path |-> "rejected", ret |-> FALSE, r1 |-> r1, r2 |-> r2,
                    delta |-> t.delta, draw_below |-> draw_below]
  /\ pre' = [assignment |-> assignment, self |-> Self]
  /\ round_trip' = NoRoundTrip
  /\ UNCHANGED ctx

Next ==
  \/ \E r1 \in Roles, r2 \in Roles : TrySwapFiltered(r1, r2)
  \/ \E r1 \in Roles, r2 \in Roles, d \in BOOLEAN : TrySwapAccepted(r1, r2, d)
  \/ \E r1 \in Roles, r2 \in Roles, d \in BOOLEAN : TrySwapRejected(r1, r2, d)

Spec == Init /\ [][Next]_vars

(* --------------------------- model soundness -------------------------- *)
\* no unsigned value of the optimizer state drops below zero, and no
\* bucket counter wraps
NoUnsignedUnderflow ==
  /\ total_collisions >= 0
  /\ collision_frequency >= 0
  /\ \A code \in Codes : bucket_freqs[code] >= 0 /\ buckets[code] <= NItems + MaxDrift

(* ------------------------------- claims ------------------------------- *)
\* the assignment and every field of the optimizer state are as before the
\* last call
StateAsBefore == assignment = pre.assignment /\ Self = pre.self

\* the items whose cached code is code
ItemsAt(codes, code) == { i \in Items : codes[i] = code }

\* the frequencies of the items
Freqs == [i \in Items |-> ctx.char_infos[i].frequency]

\* the items whose cached code the last call changed
Moved == { i \in Items : current_codes[i] # pre.self.current_codes[i] }

\* C1: a call that passes the fast filters and is rejected by the Metropolis
\* test leaves the assignment and every field of the optimizer state (the
\* occupancy and frequency sum of every bucket included) equal to their
\* values before the call.
C1_RejectedRestoresAll == call.path = "rejected" => StateAsBefore

\* C2: after every completed call, for every code c, buckets[c] is the number
\* of items whose current code is c and bucket_freqs[c] is the sum of their
\* frequencies.
C2_BucketsMatchItems ==
  \A code \in Codes :
    /\ buckets[code] = Cardinality(ItemsAt(current_codes, code))
    /\ bucket_freqs[code] = SumOver(ItemsAt(current_codes, code), Freqs)

\* C3: after every completed move total_collisions is the number of codes
\* whose bucket occupancy is greater than 1, recomputed over all buckets.
C3_CollisionsMatchBuckets ==
  total_collisions = Cardinality({ code \in Codes : buckets[code] > 1 })

\* C4: after every completed move collision_frequency is the sum of the
\* frequencies of the items that belong to a bucket of occupancy above 1.
C4_CollisionFreqMatchesBuckets ==
  collision_frequency =
    SumOver({ i \in Items : buckets[current_codes[i]] > 1 }, Freqs)

\* C5: after any accepted move, for every key k, key_weighted_usage[k] is the
\* value recomputed from scratch under the current assignment.
C5_UsageMatchesRecomputed ==
  call.path = "accepted" =>
    \A k \in Keys :
      key_weighted_usage[k] = Recomputed(ctx, assignment).key_weighted_usage[k]
\* an accepted move changed the usage of some key; an earlier move was
\* rejected from another state
C5_Witness ==
  /\ call.path = "accepted"
  /\ key_weighted_usage # pre.self.key_weighted_usage
  /\ \E i \in Items : current_keys[i][2] = 2 /\ i \in Moved
  /\ ~ C2_BucketsMatchItems

\* C6: after every call, accepted or rejected, every role's assigned key is
\* in the permitted key set of the role.
C6_AssignmentPermitted ==
  \A r \in Roles : assignment[r] \in ctx.dynamic_groups[r]
\* an accepted call exchanged the keys of a role that may not hold every key
C6_Witness ==
  /\ call.path = "accepted"
  /\ assignment # pre.assignment
  /\ \E r \in {call.r1, call.r2} : ctx.dynamic_groups[r] # Keys

\* the objective delta of exchanging the keys of the last call's roles
ExchangeDelta == Trial(pre.self, ctx, pre.assignment, call.r1, call.r2).delta

\* each of the last call's roles was permitted to hold the other's key
MutuallyPermitted ==
  /\ pre.assignment[call.r2] \in ctx.dynamic_groups[call.r1]
  /\ pre.assignment[call.r1] \in ctx.dynamic_groups[call.r2]

\* C7 as stated: for distinct roles, each permitted to hold the other's key,
\* with delta <= 0, the call returns true and keeps the exchanged assignment;
\* the only fast rejections are role_a = role_b and the permission failures.
C7_Original ==
  call.path # "none" =>
    /\ (call.r1 # call.r2 /\ MutuallyPermitted /\ ExchangeDelta <= 0)
         => (call.ret /\ assignment = Swapped(pre.assignment, call.r1, call.r2))
    /\ call.path = "filtered" => (call.r1 = call.r2 \/ ~ MutuallyPermitted)

\* C7 as amended: for two roles holding different keys, each permitted to
\* hold the other's key, with delta <= 0, the call returns true and keeps
\* the exchanged assignment whatever the draw; the only fast rejections are
\* equal keys (which covers role_a = role_b) and the permission failures.
C7_Amended ==
  call.path # "none" =>
    /\ ( /\ pre.assignment[call.r1] # pre.assignment[call.r2]
         /\ MutuallyPermitted
         /\ ExchangeDelta <= 0 )
         => (call.ret /\ assignment = Swapped(pre.assignment, call.r1, call.r2))
    /\ call.path = "filtered" =>
         (pre.assignment[call.r1] = pre.assignment[call.r2]
            \/ ~ MutuallyPermitted)
\* a move of delta <= 0 was accepted although the draw was not below the
\* acceptance probability
C7_Witness ==
  /\ call.path = "accepted"
  /\ call.delta <= 0
  /\ ~ call.draw_below
  /\ Moved # {}

\* C8: a call with role_a = role_b returns false and leaves the assignment
\* and every field of the optimizer state untouched.
C8_SelfSwapRejected ==
  (call.path # "none" /\ call.r1 = call.r2) => (~ call.ret /\ StateAsBefore)
\* a call with role_a = role_b returned, on a role that affects items
C8_Witness ==
  /\ call.path = "filtered"
  /\ call.r1 = call.r2
  /\ ctx.group_to_char_indices[call.r1] # <<>>

\* C9: a call where role_a may not hold role_b's key, or role_b may not hold
\* role_a's key, returns false and leaves the assignment and every field of
\* the optimizer state untouched.
C9_PermissionRejected ==
  (call.path # "none" /\ call.r1 # call.r2 /\ ~ MutuallyPermitted)
    => (~ call.ret /\ StateAsBefore)
\* a call returned where exactly one of the two permissions failed, on roles
\* that affect items
C9_Witness ==
  /\ call.path = "filtered"
  /\ call.r1 # call.r2
  /\ pre.assignment[call.r1] # pre.assignment[call.r2]
  /\ pre.assignment[call.r1] \notin ctx.dynamic_groups[call.r2]
  /\ pre.assignment[call.r2] \in ctx.dynamic_groups[call.r1]
  /\ ctx.group_to_char_indices[call.r1] # <<>>

\* the last call moved exactly one item, out of a bucket where it was alone
\* into a bucket that held exactly one other item
LoneItemJoinedOne ==
  /\ Cardinality(Moved) = 1
  /\ \A i \in Moved :
       /\ ItemsAt(pre.self.current_codes, pre.self.current_codes[i]) = {i}
       /\ Cardinality(ItemsAt(pre.self.current_codes, current_codes[i])) = 1

\* C10: when an accepted swap moves exactly one item out of a bucket where
\* it was alone into a bucket that held exactly one other item,
\* total_collisions grows by 1 and collision_frequency by the sum of the two
\* items' frequencies; a rejected move leaves both at their pre-move values.
C10_LoneItemCollision ==
  /\ (call.path = "accepted" /\ LoneItemJoinedOne) =>
       /\ total_collisions = pre.self.total_collisions + 1
       /\ collision_frequency =
            pre.self.collision_frequency
              + SumOver(UNION { ItemsAt(current_codes, current_codes[i]) :
                                  i \in Moved }, Freqs)
  /\ call.path = "rejected" =>
       /\ total_collisions = pre.self.total_collisions
       /\ collision_frequency = pre.self.collision_frequency

\* the affected_chars list of the last call, as a set
AffectedSet ==
  LET a == AffectedChars(ctx, call.r1, call.r2)
  IN { a[j] : j \in 1..Len(a) }

\* the last call passed the fast filter
PassedFilter == call.path \in {"accepted", "rejected"}

\* C11: after every completed move, accepted or rejected,
\* total_equiv_weighted is the sum over all items of current_equiv_contrib
\* and total_equiv_sq_weighted the sum of current_equiv_sq_contrib.
C11_EquivSumsMatchContribs ==
  call.path # "none" =>
    /\ total_equiv_weighted = SumOver(Items, current_equiv_contrib)
    /\ total_equiv_sq_weighted = SumOver(Items, current_equiv_sq_contrib)
\* an accepted move changed some item's contributions, after an earlier
\* rejected move left a bucket inflated
C11_Witness ==
  /\ call.path = "accepted"
  /\ current_equiv_contrib # pre.self.current_equiv_contrib
  /\ current_equiv_sq_contrib # pre.self.current_equiv_sq_contrib
  /\ ~ C2_BucketsMatchItems

TrialOfCall == Trial(pre.self, ctx, pre.assignment, call.r1, call.r2)

\* the affected items whose code the trial move of the last call changed
ChangedByTrial ==
  { i \in AffectedSet :
      TrialOfCall.moved.current_codes[i] # pre.self.current_codes[i] }

\* the snapshot of the last call holds the pre-move occupancy and frequency
\* sum of the bucket of code
RecordedInSnapshot(code) ==
  LET snap == TrialOfCall.snapshot
  IN /\ \E j \in 1..Len(snap.buckets) :
          snap.buckets[j] = <<code, pre.self.buckets[code]>>
     /\ \E j \in 1..Len(snap.bucket_freqs) :
          snap.bucket_freqs[j] = <<code, pre.self.bucket_freqs[code]>>

\* C13: the snapshot records every bucket the diff updater modifies: for each
\* affected item whose code changes, the bucket of its old code and the
\* bucket of its new code are captured with their pre-move values.
C13_SnapshotCoversBuckets ==
  PassedFilter =>
    \A i \in ChangedByTrial :
      /\ RecordedInSnapshot(pre.self.current_codes[i])
      /\ RecordedInSnapshot(TrialOfCall.moved.current_codes[i])

\* the bucket occupancies, the bucket frequency sums and collision_frequency
\* of the state s are those a recomputation from its items' codes yields
BucketsConsistent(s) ==
  LET At(code) == ItemsAt(s.current_codes, code)
  IN /\ \A code \in Codes :
          /\ s.buckets[code] = Cardinality(At(code))
          /\ s.bucket_freqs[code] = SumOver(At(code), Freqs)
     /\ s.collision_frequency =
          SumOver({ i \in Items : Cardinality(At(s.current_codes[i])) > 1 },
                  Freqs)

\* C14: one run of update_swap_diff_fast on a state whose bucket
\* occupancies, frequency sums and collision_frequency are consistent with
\* the items' codes yields a state where they are consistent again, also when
\* several affected items leave the same bucket or enter the same bucket.
C14_DiffKeepsBucketsConsistent ==
  (PassedFilter /\ BucketsConsistent(pre.self))
    => BucketsConsistent(TrialOfCall.moved)
\* the diff ran on a consistent state where two affected items left one
\* bucket and entered one bucket
C14_Witness ==
  /\ PassedFilter
  /\ BucketsConsistent(pre.self)
  /\ \E i \in ChangedByTrial, j \in ChangedByTrial :
       /\ i # j
       /\ pre.self.current_codes[i] = pre.self.current_codes[j]
       /\ TrialOfCall.moved.current_codes[i] = TrialOfCall.moved.current_codes[j]

RECURSIVE RemovalsSafe(_, _, _, _, _)
\* from position n of the loop over affected_chars on, every call of
\* update_buckets_for_char finds the bucket it removes the item from with an
\* occupancy of at least 1 and a frequency sum of at least the item's
\* frequency
RemovalsSafe(d, c, asg, affected_chars, n) ==
  IF n > Len(affected_chars) THEN TRUE
  ELSE LET char_idx == affected_chars[n]
           old_code == d.self.current_codes[char_idx]
           new_code == calc_code_and_keys(c, char_idx, asg)[1]
           freq == c.char_infos[char_idx].frequency
       IN /\ old_code # new_code =>
               /\ d.self.buckets[old_code] >= 1
               /\ d.self.bucket_freqs[old_code] >= freq
          /\ Bind(DiffStep(d, c, asg, char_idx),
                  LAMBDA next : RemovalsSafe(next, c, asg, affected_chars,
                                             n + 1))

\* every removal of the diff run of the last call was safe
RemovalsOfCallSafe ==
  PassedFilter =>
    RemovalsSafe(DiffLocals(pre.self), ctx,
                 Swapped(pre.assignment, call.r1, call.r2),
                 AffectedChars(ctx, call.r1, call.r2), 1)

\* C15: in any sequence of accepted and rejected moves from a consistent
\* state the unsigned bucket arithmetic never wraps: every removal finds an
\* occupancy of at least 1 and a frequency sum of at least the item's
\* frequency, and no bucket's occupancy ever exceeds the number of items.
C15_BucketArithmeticNeverWraps ==
  /\ RemovalsOfCallSafe
  /\ \A code \in Codes : buckets[code] <= NItems

\* C16: after every completed try_swap, for every item, the cached code and
\* key list are those the derivation function yields under the current
\* assignment, and so are the equivalence contributions and the key usage: an
\* item skipped because its new code equals its old code leaves nothing stale.
C16_CachesMatchDerivation ==
  call.path # "none" =>
    /\ \A i \in Items :
         LET ck == calc_code_and_keys(ctx, i, assignment)
             avg == calc_key_avg_equiv_inline(ck[2], ck[3])
         IN /\ current_codes[i] = ck[1]
            /\ current_keys[i] = <<ck[2], ck[3]>>
            /\ current_equiv_contrib[i] = avg * Freqs[i]
            /\ current_equiv_sq_contrib[i] = avg * avg * Freqs[i]
    /\ key_weighted_usage = Recomputed(ctx, assignment).key_weighted_usage
\* an accepted call changed the code of one affected item and skipped another
\* affected item, whose new code equals its old code
C16_Witness ==
  /\ call.path = "accepted"
  /\ ChangedByTrial # {}
  /\ AffectedSet \ ChangedByTrial # {}

\* the affected items of the last call whose pre-move code is code
SharingBefore(code) ==
  { i \in AffectedSet : pre.self.current_codes[i] = code }

\* the positions of entries that hold code in a list of (code, value) pairs
EntriesOf(entries, code) ==
  { j \in 1..Len(entries) : entries[j][1] = code }

\* C17: when two or more affected items share the same pre-move bucket, the
\* snapshot records that bucket once per item, and after a rejected call the
\* bucket's occupancy and frequency sum are exactly their pre-move values.
C17_SharedBucketRestored ==
  call.path = "rejected" =>
    \A code \in Codes :
      Cardinality(SharingBefore(code)) >= 2 =>
        LET snap == TrialOfCall.snapshot
        IN /\ Cardinality(EntriesOf(snap.buckets, code))
                = Cardinality(SharingBefore(code))
           /\ Cardinality(EntriesOf(snap.bucket_freqs, code))
                = Cardinality(SharingBefore(code))
           /\ buckets[code] = pre.self.buckets[code]
           /\ bucket_freqs[code] = pre.self.bucket_freqs[code]
\* a rejected call whose trial move took two affected items out of one bucket
C17_Witness ==
  /\ call.path = "rejected"
  /\ \E i \in ChangedByTrial, j \in ChangedByTrial :
       i # j /\ pre.self.current_codes[i] = pre.self.current_codes[j]

\* C18: an accepted swap of two roles immediately followed by an accepted
\* swap of the same two roles returns the assignment, every item's cached
\* code and key list, every bucket's occupancy and frequency sum,
\* total_collisions and collision_frequency to their values before the first
\* swap.
C18_SwapTwiceIsIdentity ==
  round_trip.valid =>
    /\ assignment = round_trip.assignment
    /\ current_codes = round_trip.self.current_codes
    /\ current_keys = round_trip.self.current_keys
    /\ buckets = round_trip.self.buckets
    /\ bucket_freqs = round_trip.self.bucket_freqs
    /\ total_collisions = round_trip.self.total_collisions
    /\ collision_frequency = round_trip.self.collision_frequency
\* two accepted swaps of the same two roles in a row, the second of which
\* moved at least two items
C18_Witness ==
  /\ round_trip.valid
  /\ Cardinality(Moved) >= 2

\* the items of a list
ListedIn(list) == { list[j] : j \in 1..Len(list) }

\* C19: the affected-item list that try_swap snapshots and passes to the diff
\* updater contains every item listed as affected by role_a or by role_b and
\* contains no item more than once, items in both roles' lists included.
C19_AffectedListIsUnion ==
  PassedFilter =>
    LET a == AffectedChars(ctx, call.r1, call.r2)
    IN /\ ListedIn(ctx.group_to_char_indices[call.r1]) \subseteq ListedIn(a)
       /\ ListedIn(ctx.group_to_char_indices[call.r2]) \subseteq ListedIn(a)
       /\ \A j \in 1..Len(a), k \in 1..Len(a) : a[j] = a[k] => j = k
\* a call passed the filter with an item in both roles' lists and an item in
\* the second role's list only
C19_Witness ==
  /\ PassedFilter
  /\ ListedIn(ctx.group_to_char_indices[call.r1])
       \cap ListedIn(ctx.group_to_char_indices[call.r2]) # {}
  /\ ListedIn(ctx.group_to_char_indices[call.r2])
       \ ListedIn(ctx.group_to_char_indices[call.r1]) # {}

====
